---------------------------- MODULE Spec2Model ----------------------------
(***************************************************************************)
(* TravelLines: the stop-name resolver (scripts/geocodeStops.mjs) and the  *)
(* trip aggregator of the visualisation app (App component).               *)
(*                                                                         *)
(* Strings are sequences of one-character strings, so that includes,       *)
(* startsWith, concatenation, trim and toLowerCase are computed on the     *)
(* characters as the JavaScript does.  A JavaScript object used as a map   *)
(* is a function whose domain is the object's own keys; stop names are     *)
(* taken not to be names of Object.prototype members.                      *)
(***************************************************************************)
EXTENDS Integers, Sequences, FiniteSets, TLC

(***************************************************************************)
(* String helpers (String.prototype.includes / startsWith / endsWith).     *)
(***************************************************************************)
StartsWith(s, p) ==
  /\ Len(p) <= Len(s)
  /\ SubSeq(s, 1, Len(p)) = p

EndsWith(s, p) ==
  /\ Len(p) <= Len(s)
  /\ SubSeq(s, Len(s) - Len(p) + 1, Len(s)) = p

Includes(s, p) ==
  \E i \in 1..(Len(s) - Len(p) + 1) : SubSeq(s, i, i + Len(p) - 1) = p

null == << >>

Truthy(v) == v # null

(***************************************************************************)
(* scripts/geocodeStops.mjs: the static tables.                            *)
(***************************************************************************)
overrides ==
     (<<"1","e"," ","C","."," ","H","u","y","g","e","n","s","s","t","r","a","a","t">>
      :> <<"1","e"," ","C","o","n","s","t","a","n","t","i","j","n"," ","H","u","y","g","e","n","s","s","t","r","a","a","t",","," ","A","m","s","t","e","r","d","a","m",","," ","N","e","t","h","e","r","l","a","n","d","s">>)
  @@ (<<"1","e"," ","C","o","n","."," ","H","u","y","g","e","n","s","s","t","r","a","a","t">>
      :> <<"1","e"," ","C","o","n","s","t","a","n","t","i","j","n"," ","H","u","y","g","e","n","s","s","t","r","a","a","t",","," ","A","m","s","t","e","r","d","a","m",","," ","N","e","t","h","e","r","l","a","n","d","s">>)
  @@ (<<"B","u","r","g","."," ","E","l","i","a","s","s","t","r","a","a","t">>
      :> <<"B","u","r","g","e","m","e","e","s","t","e","r"," ","E","l","i","a","s","s","t","r","a","a","t",","," ","A","m","s","t","e","r","d","a","m",","," ","N","e","t","h","e","r","l","a","n","d","s">>)
  @@ (<<"A","a","c","h","e","n"," ","H","b","f">>
      :> <<"A","a","c","h","e","n"," ","H","a","u","p","t","b","a","h","n","h","o","f",","," ","A","a","c","h","e","n",","," ","G","e","r","m","a","n","y">>)
  @@ (<<"A","m","s","t","e","r","d","a","m",","," ","M","o","s","p","l","e","i","n">>
      :> <<"M","o","s","p","l","e","i","n",","," ","A","m","s","t","e","r","d","a","m",","," ","N","e","t","h","e","r","l","a","n","d","s">>)
  @@ (<<"A","m","s","t","e","r","d","a","m",","," ","S","t","e","n","e","n","d","o","k","w","e","g">>
      :> <<"S","t","e","n","e","n","d","o","k","w","e","g",","," ","A","m","s","t","e","r","d","a","m",","," ","N","e","t","h","e","r","l","a","n","d","s">>)
  @@ (<<"A","p","e","l","d","o","o","r","n",","," ","D","e"," ","V","e","e","n","k","a","m","p">>
      :> <<"D","e"," ","V","e","e","n","k","a","m","p",","," ","A","p","e","l","d","o","o","r","n",","," ","N","e","t","h","e","r","l","a","n","d","s">>)
  @@ (<<"A","p","e","l","d","o","o","r","n",","," ","G","e","d","e","n","k","n","a","a","l","d">>
      :> <<"G","e","d","e","n","k","n","a","a","l","d",","," ","A","p","e","l","d","o","o","r","n",","," ","N","e","t","h","e","r","l","a","n","d","s">>)
  @@ (<<"A","p","e","l","d","o","o","r","n",","," ","S","t","a","t","i","o","n">>
      :> <<"S","t","a","t","i","o","n"," ","A","p","e","l","d","o","o","r","n",","," ","A","p","e","l","d","o","o","r","n",","," ","N","e","t","h","e","r","l","a","n","d","s">>)
  @@ (<<"C","e","n","t","r","a","a","l"," ","S","t","a","t","i","o","n">>
      :> <<"A","m","s","t","e","r","d","a","m"," ","C","e","n","t","r","a","a","l"," ","S","t","a","t","i","o","n",","," ","A","m","s","t","e","r","d","a","m",","," ","N","e","t","h","e","r","l","a","n","d","s">>)
  @@ (<<"C","e","n","t","r","u","m">>
      :> <<"C","e","n","t","r","u","m",","," ","D","e","n"," ","H","a","a","g",","," ","N","e","t","h","e","r","l","a","n","d","s">>)
  @@ (<<"C","."," ","v","a","n"," ","E","e","s","t","e","r","e","n","l","a","a","n">>
      :> <<"C","."," ","v","a","n"," ","E","e","s","t","e","r","e","n","l","a","a","n",","," ","A","m","s","t","e","r","d","a","m",","," ","N","e","t","h","e","r","l","a","n","d","s">>)
  @@ (<<"D","e","n"," ","H","e","l","d","e","r",","," ","S","t","a","t","i","o","n">>
      :> <<"S","t","a","t","i","o","n"," ","D","e","n"," ","H","e","l","d","e","r",","," ","D","e","n"," ","H","e","l","d","e","r",","," ","N","e","t","h","e","r","l","a","n","d","s">>)
  @@ (<<"D","e","n"," ","H","e","l","d","e","r",","," ","S","t","e","i","g","e","r"," ","T","e","s","o">>
      :> <<"S","t","e","i","g","e","r"," ","T","E","S","O",","," ","D","e","n"," ","H","e","l","d","e","r",","," ","N","e","t","h","e","r","l","a","n","d","s">>)
  @@ (<<"F","r","e","d","e","r","i","k"," ","H","e","n","d","r","i","k","p","l","n","t","s">>
      :> <<"F","r","e","d","e","r","i","k"," ","H","e","n","d","r","i","k","p","l","a","n","t","s","o","e","n",","," ","A","m","s","t","e","r","d","a","m",","," ","N","e","t","h","e","r","l","a","n","d","s">>)
  @@ (<<"H","e","e","m","s","t","e","d","e",","," ","S","t","a","t",".","H","e","e","m","s","t","e","d","e","-","A","e","r","d">>
      :> <<"S","t","a","t","i","o","n"," ","H","e","e","m","s","t","e","d","e","-","A","e","r","d","e","n","h","o","u","t",","," ","H","e","e","m","s","t","e","d","e",","," ","N","e","t","h","e","r","l","a","n","d","s">>)
  @@ (<<"J",".","P","."," ","H","e","i","j","e","s","t","r","a","a","t">>
      :> <<"J","a","n"," ","P","i","e","t","e","r"," ","H","e","i","j","e","s","t","r","a","a","t",","," ","A","m","s","t","e","r","d","a","m",","," ","N","e","t","h","e","r","l","a","n","d","s">>)
  @@ (<<"K","i","e","v","i","t","s","l","a","a","n">>
      :> <<"K","i","e","v","i","t","s","l","a","a","n",","," ","R","o","t","t","e","r","d","a","m",","," ","N","e","t","h","e","r","l","a","n","d","s">>)
  @@ (<<"m","u","z","i","e","k","g","e","b","o","u","w"," ","B","i","m","h","u","i","s">>
      :> <<"B","i","m","h","u","i","s",","," ","A","m","s","t","e","r","d","a","m",","," ","N","e","t","h","e","r","l","a","n","d","s">>)
  @@ (<<"N","o","o","r","d">>
      :> <<"A","m","s","t","e","r","d","a","m"," ","N","o","o","r","d",","," ","A","m","s","t","e","r","d","a","m",","," ","N","e","t","h","e","r","l","a","n","d","s">>)
  @@ (<<"P","u","r","m","e","r","e","n","d",","," ","A","n","n","e"," ","F","r","a","n","k","l","a","a","n">>
      :> <<"A","n","n","e"," ","F","r","a","n","k","l","a","a","n",","," ","P","u","r","m","e","r","e","n","d",","," ","N","e","t","h","e","r","l","a","n","d","s">>)
  @@ (<<"P","u","r","m","e","r","e","n","d",","," ","C","h","u","r","c","h","i","l","l","l","a","a","n">>
      :> <<"C","h","u","r","c","h","i","l","l","l","a","a","n",","," ","P","u","r","m","e","r","e","n","d",","," ","N","e","t","h","e","r","l","a","n","d","s">>)
  @@ (<<"P","u","r","m","e","r","e","n","d",","," ","K","e","l","v","i","n","s","t","r","a","a","t">>
      :> <<"K","e","l","v","i","n","s","t","r","a","a","t",","," ","P","u","r","m","e","r","e","n","d",","," ","N","e","t","h","e","r","l","a","n","d","s">>)
  @@ (<<"P","u","r","m","e","r","e","n","d",","," ","S","t","a","t","i","o","n"," ","O","v","e","r","w","h","e","r","e">>
      :> <<"S","t","a","t","i","o","n"," ","O","v","e","r","w","h","e","r","e",","," ","P","u","r","m","e","r","e","n","d",","," ","N","e","t","h","e","r","l","a","n","d","s">>)
  @@ (<<"P","u","r","m","e","r","e","n","d",","," ","T","r","a","m","p","l","e","i","n">>
      :> <<"T","r","a","m","p","l","e","i","n",","," ","P","u","r","m","e","r","e","n","d",","," ","N","e","t","h","e","r","l","a","n","d","s">>)
  @@ (<<"P","u","r","m","e","r","e","n","d",","," ","V","e","e","n","w","e","i","d","e","s","t","r","a","a","t">>
      :> <<"V","e","e","n","w","e","i","d","e","s","t","r","a","a","t",","," ","P","u","r","m","e","r","e","n","d",","," ","N","e","t","h","e","r","l","a","n","d","s">>)
  @@ (<<"S","c","h","e","v",".","s","l","a","g","/","b","e","e","l","d","e","n"," ","a","a","n"," ","Z","e","e">>
      :> <<"B","e","e","l","d","e","n"," ","a","a","n"," ","Z","e","e",","," ","S","c","h","e","v","e","n","i","n","g","e","n",","," ","D","e","n"," ","H","a","a","g",","," ","N","e","t","h","e","r","l","a","n","d","s">>)
  @@ (<<"S","t","a","t","i","o","n"," ","B","l","a","a","k">>
      :> <<"R","o","t","t","e","r","d","a","m"," ","B","l","a","a","k",","," ","R","o","t","t","e","r","d","a","m",","," ","N","e","t","h","e","r","l","a","n","d","s">>)
  @@ (<<"S","t","a","t","i","o","n"," ","H","o","l","l","a","n","d","s"," ","S","p","o","o","r">>
      :> <<"D","e","n"," ","H","a","a","g"," ","H","o","l","l","a","n","d","s"," ","S","p","o","o","r",","," ","D","e","n"," ","H","a","a","g",","," ","N","e","t","h","e","r","l","a","n","d","s">>)
  @@ (<<"S","t","a","t","i","o","n"," ","L","e","l","y","l","a","a","n">>
      :> <<"A","m","s","t","e","r","d","a","m"," ","L","e","l","y","l","a","a","n",","," ","A","m","s","t","e","r","d","a","m",","," ","N","e","t","h","e","r","l","a","n","d","s">>)
  @@ (<<"S","t","a","t","i","o","n"," ","M","a","r","i","a","h","o","e","v","e">>
      :> <<"D","e","n"," ","H","a","a","g"," ","M","a","r","i","a","h","o","e","v","e",","," ","D","e","n"," ","H","a","a","g",","," ","N","e","t","h","e","r","l","a","n","d","s">>)
  @@ (<<"S","t","a","t","i","o","n"," ","Z","u","i","d">>
      :> <<"A","m","s","t","e","r","d","a","m"," ","Z","u","i","d",","," ","A","m","s","t","e","r","d","a","m",","," ","N","e","t","h","e","r","l","a","n","d","s">>)
  @@ (<<"V","a","n"," ","d","e","r"," ","W","o","e","r","t","s","t","r","a","a","t">>
      :> <<"V","a","n"," ","d","e","r"," ","W","o","e","r","t","s","t","r","a","a","t",","," ","D","e","n"," ","H","a","a","g",","," ","N","e","t","h","e","r","l","a","n","d","s">>)
  @@ (<<"V","o","g","e","l","e","n","z","a","n","g",","," ","W","a","t","e","r","l","e","i","d","i","n","g">>
      :> <<"W","a","t","e","r","l","e","i","d","i","n","g",","," ","V","o","g","e","l","e","n","z","a","n","g",","," ","N","e","t","h","e","r","l","a","n","d","s">>)
  @@ (<<"Z","a","n","d","v","o","o","r","t",","," ","W","a","t","e","r","l","e","i","d","i","n","g","/","n","w","."," ","U","n">>
      :> <<"W","a","t","e","r","l","e","i","d","i","n","g",","," ","Z","a","n","d","v","o","o","r","t",","," ","N","e","t","h","e","r","l","a","n","d","s">>)
  @@ (<<"Z","a","n","d","v","o","o","r","t",","," ","Z","a","n","d","v","o","o","r","t"," ","C","e","n","t","r","u","m">>
      :> <<"Z","a","n","d","v","o","o","r","t"," ","C","e","n","t","r","u","m",","," ","Z","a","n","d","v","o","o","r","t",","," ","N","e","t","h","e","r","l","a","n","d","s">>)

denHaagStops ==
  { <<"B","i","e","r","k","a","d","e">>,
    <<"H","o","f","z","i","c","h","t","l","a","a","n">>,
    <<"K","i","e","v","i","t","s","l","a","a","n">>,
    <<"K","n","e","u","t","e","r","d","i","j","k">>,
    <<"K","u","n","s","t","m","u","s","e","u","m">>,
    <<"K","u","r","h","a","u","s">>,
    <<"S","c","h","e","v",".","s","l","a","g","/","b","e","e","l","d","e","n"," ","a","a","n"," ","Z","e","e">>,
    <<"S","t","a","t","e","n","p","l","e","i","n">>,
    <<"V","r","e","d","e","s","p","a","l","e","i","s">>,
    <<"D","e","n"," ","H","a","a","g"," ","H","S">>,
    <<"D","e","n"," ","H","a","a","g"," ","C","e","n","t","r","a","a","l">>,
    <<"D","e","n"," ","H","a","a","g"," ","M","a","r","i","a","h","o","e","v","e">>,
    <<"S","t","a","t","i","o","n"," ","H","o","l","l","a","n","d","s"," ","S","p","o","o","r">>,
    <<"S","t","a","t","i","o","n"," ","M","a","r","i","a","h","o","e","v","e">>,
    <<"C","e","n","t","r","u","m">> }

rotterdamStops ==
  { <<"K","r","u","i","s","p","l","e","i","n">>,
    <<"L","e","u","v","e","h","a","v","e","n">>,
    <<"N","i","e","u","w","e"," ","H","a","v","e","n">>,
    <<"V","a","s","t","e","l","a","n","d">>,
    <<"W","e","e","n","a">>,
    <<"W","i","t","t","e"," ","d","e"," ","W","i","t","h","s","t","r","a","a","t">>,
    <<"W","o","u","d","e","s","t","e","i","n">>,
    <<"M","u","s","e","u","m","p","a","r","k">>,
    <<"R","o","t","t","e","r","d","a","m"," ","C","e","n","t","r","a","a","l">>,
    <<"R","o","t","t","e","r","d","a","m"," ","B","l","a","a","k">>,
    <<"S","t","a","t","i","o","n"," ","B","l","a","a","k">> }

purmerendStops ==
  { <<"P","u","r","m","e","r","e","n","d"," ","O","v","e","r","w","h","e","r","e">>,
    <<"P","u","r","m","e","r","e","n","d",","," ","A","n","n","e"," ","F","r","a","n","k","l","a","a","n">>,
    <<"P","u","r","m","e","r","e","n","d",","," ","C","h","u","r","c","h","i","l","l","l","a","a","n">>,
    <<"P","u","r","m","e","r","e","n","d",","," ","K","e","l","v","i","n","s","t","r","a","a","t">>,
    <<"P","u","r","m","e","r","e","n","d",","," ","S","i","g","n","a","a","l">>,
    <<"P","u","r","m","e","r","e","n","d",","," ","S","t","a","t","i","o","n"," ","O","v","e","r","w","h","e","r","e">>,
    <<"P","u","r","m","e","r","e","n","d",","," ","T","r","a","m","p","l","e","i","n">>,
    <<"P","u","r","m","e","r","e","n","d",","," ","V","e","e","n","w","e","i","d","e","s","t","r","a","a","t">> }

zandvoortStops ==
  { <<"Z","a","n","d","v","o","o","r","t",","," ","W","a","t","e","r","l","e","i","d","i","n","g","/","n","w","."," ","U","n">>,
    <<"Z","a","n","d","v","o","o","r","t",","," ","Z","a","n","d","v","o","o","r","t"," ","C","e","n","t","r","u","m">>,
    <<"Z","a","n","d","v","o","o","r","t"," ","a","a","n"," ","Z","e","e">> }

allCityPrefixes ==
  << <<"A","m","s","t","e","r","d","a","m">>,
     <<"R","o","t","t","e","r","d","a","m">>,
     <<"D","e","n"," ","H","a","a","g">>,
     <<"P","u","r","m","e","r","e","n","d">>,
     <<"Z","a","a","n","d","a","m">>,
     <<"Z","a","n","d","v","o","o","r","t">>,
     <<"A","p","e","l","d","o","o","r","n">>,
     <<"A","r","n","h","e","m">>,
     <<"B","r","e","d","a">>,
     <<"D","e","l","f","t">>,
     <<"E","n","s","c","h","e","d","e">>,
     <<"H","a","a","r","l","e","m">>,
     <<"H","e","e","r","l","e","n">>,
     <<"M","a","a","s","t","r","i","c","h","t">>,
     <<"N","i","j","m","e","g","e","n">>,
     <<"A","a","c","h","e","n">>,
     <<"A","l","k","m","a","a","r">>,
     <<"D","e","n"," ","H","e","l","d","e","r">>,
     <<"S","c","h","i","p","h","o","l">>,
     <<"V","e","l","p">>,
     <<"D","i","e","r","e","n">>,
     <<"U","i","t","g","e","e","s","t">>,
     <<"O","v","e","r","v","e","e","n">>,
     <<"S","a","n","t","p","o","o","r","t"," ","N","o","o","r","d">>,
     <<"H","e","e","m","s","t","e","d","e","-","A","e","r","d","e","n","h","o","u","t">>,
     <<"Z","a","a","n","d","i","j","k"," ","Z","a","a","n","s","e"," ","S","c","h","a","n","s">>,
     <<"M","o","o","k","-","M","o","l","e","n","h","o","e","k">> >>

Onbekend == <<"O","n","b","e","k","e","n","d">>

Comma == <<",">>

SuffixNL == <<","," ","N","e","t","h","e","r","l","a","n","d","s">>

SuffixCity(city) == <<","," ">> \o city \o SuffixNL

DenHaag == <<"D","e","n"," ","H","a","a","g">>

Rotterdam == <<"R","o","t","t","e","r","d","a","m">>

Purmerend == <<"P","u","r","m","e","r","e","n","d">>

Zandvoort == <<"Z","a","n","d","v","o","o","r","t">>

Amsterdam == <<"A","m","s","t","e","r","d","a","m">>

(***************************************************************************)
(* guessQuery(name): the rules in the order of the source's if-chain.      *)
(***************************************************************************)
guessQuery_CommaFirst(name) ==
  IF name = << >> \/ name = Onbekend THEN null
  ELSE IF Includes(name, Comma) THEN name \o SuffixNL
  ELSE IF name \in DOMAIN overrides THEN overrides[name]
  ELSE IF \E k \in 1..Len(allCityPrefixes) : StartsWith(name, allCityPrefixes[k])
    THEN name \o SuffixNL
  ELSE IF name \in denHaagStops THEN name \o SuffixCity(DenHaag)
  ELSE IF name \in rotterdamStops THEN name \o SuffixCity(Rotterdam)
  ELSE IF name \in purmerendStops THEN name \o SuffixCity(Purmerend)
  ELSE IF name \in zandvoortStops THEN name \o SuffixCity(Zandvoort)
  ELSE name \o SuffixCity(Amsterdam)

guessQuery(name) ==
  IF name = << >> \/ name = Onbekend THEN null
  ELSE IF name \in DOMAIN overrides THEN overrides[name]
  ELSE IF Includes(name, Comma) THEN name \o SuffixNL
  ELSE IF \E k \in 1..Len(allCityPrefixes) : StartsWith(name, allCityPrefixes[k])
    THEN name \o SuffixNL
  ELSE IF name \in denHaagStops THEN name \o SuffixCity(DenHaag)
  ELSE IF name \in rotterdamStops THEN name \o SuffixCity(Rotterdam)
  ELSE IF name \in purmerendStops THEN name \o SuffixCity(Purmerend)
  ELSE IF name \in zandvoortStops THEN name \o SuffixCity(Zandvoort)
  ELSE name \o SuffixCity(Amsterdam)

(***************************************************************************)
(* Bounds of the model.                                                    *)
(***************************************************************************)
MaxRuns == 3

MaxMatch == 2

(***************************************************************************)
(* Stop names and CSV exports the resolver is run on.                      *)
(***************************************************************************)
Centrum == <<"C","e","n","t","r","u","m">>

Dam == <<"D","a","m">>

Weena == <<"W","e","e","n","a">>

Zuid == <<"Z","u","i","d">>

\* The names above in the order of String.prototype.localeCompare.
collation == << Centrum, Dam, Onbekend, Weena, Zuid >>

\* A CSV export: its data rows as <<Vertrek, Bestemming>>.
CsvFiles ==
  { << >>,
    << <<Dam, Centrum>>, <<Onbekend, Dam>> >>,
    << <<Dam, Centrum>>, <<Onbekend, Dam>>, << << >>, Weena>> >> }

VARIABLES
  pc,          \* where the resolver process is; "idle" when no process runs
  csvStops,    \* main: const stops = await readCsvStops()
  idx,         \* position of the for-of loop in csvStops
  existing,    \* main: the store read at start-up
  output,      \* main: the store being built
  disk,        \* the file at OUT_PATH
  now,         \* the clock read by new Date()
  runs,        \* number of times the script was started
  events,      \* history: requests, store writes and delays of this run
  lastWritten, \* history: the last store whose write completed
  gName,       \* guessQuery: the name it is applied to
  gQuery,      \* guessQuery: the value it returned
  gDone,       \* guessQuery: whether it has returned
  fTrips,      \* App: trips
  fState,      \* App: includeNonTrips, selectedProducts, dateStart, dateEnd, search
  fFiltered,   \* App: filteredTrips
  fDone,       \* whether filteredTrips has been computed
  aTrips,      \* App: filteredTrips, as analytics reads it
  aCoords,     \* App: coords
  aResult,     \* App: analytics
  aDone,       \* whether analytics has been computed
  tz,                  \* the browser's offset from UTC, in hours
  appRows,             \* App: rows
  appCoords,           \* App: coords
  loading,             \* App: loading
  error,               \* App: error
  selectedProducts,    \* App: selectedProducts
  productsInitialized, \* App: productsInitialized
  dateStart,           \* App: dateStart
  dateEnd,             \* App: dateEnd
  search,              \* App: search
  lastAct,             \* history: the last step of the session
  loadFailure,         \* history: the sources whose load went wrong
  touched              \* history: whether the user has changed a filter

resolverVars ==
  << pc, csvStops, idx, existing, output, disk, now, runs, events, lastWritten >>

guessVars == << gName, gQuery, gDone >>

filterVars == << fTrips, fState, fFiltered, fDone >>

aggVars == << aTrips, aCoords, aResult, aDone >>

appVars ==
  << tz, appRows, appCoords, loading, error, selectedProducts, productsInitialized,
     dateStart, dateEnd, search, lastAct, loadFailure, touched >>

otherThanResolver == << guessVars, filterVars, aggVars, appVars >>

otherThanGuess == << resolverVars, filterVars, aggVars, appVars >>

otherThanFilter == << resolverVars, guessVars, aggVars, appVars >>

otherThanAgg == << resolverVars, guessVars, filterVars, appVars >>

otherThanApp == << resolverVars, guessVars, filterVars, aggVars >>

EmptyMap == << >>

NoStore == [generatedAt |-> 0, stops |-> EmptyMap, unmatched |-> << >>]

NoFile == [kind |-> "none", content |-> NoStore]

Truncated == [kind |-> "truncated", content |-> NoStore]

FileOf(store) == [kind |-> "json", content |-> store]

Contains(seq, x) == \E i \in 1..Len(seq) : seq[i] = x

Range(seq) == { seq[i] : i \in 1..Len(seq) }

\* readCsvStops: the non-empty Vertrek and Bestemming values, without
\* duplicates, sorted with localeCompare.
readCsvStops(rows) ==
  LET stops == { n \in { rows[i][1] : i \in 1..Len(rows) }
                       \cup { rows[i][2] : i \in 1..Len(rows) } : n # << >> }
      InStops(n) == n \in stops
  IN  SelectSeq(collation, InStops)

\* main, lines 214-221: JSON.parse of the file, or the default when reading
\* or parsing throws.
readExisting(file) ==
  IF file.kind = "json" THEN file.content ELSE NoStore

\* main, lines 223-227.
initialOutput_Fresh(ex, t) ==
  [generatedAt |-> t, stops |-> EmptyMap, unmatched |-> << >>]

initialOutput(ex, t) ==
  [generatedAt |-> t, stops |-> ex.stops, unmatched |-> ex.unmatched]

\* main, line 230: the guard that skips a name.
alreadyClassified_StopsOnly(out, name) ==
  name \in DOMAIN out.stops

alreadyClassified(out, name) ==
  name \in DOMAIN out.stops \/ Contains(out.unmatched, name)

\* The geocoder's answers: fetch rejects, a non-success status, a body
\* that is no JSON, an empty array, or a first match.
Replies ==
  { [kind |-> k, m |-> 0] : k \in {"networkError", "httpError", "badJson", "empty"} }
    \cup { [kind |-> "match", m |-> m] : m \in 1..MaxMatch }

\* geocode(name, query) given the service's reply.
geocode(name, query, reply) ==
  IF reply.kind \in {"networkError", "httpError", "badJson"}
    THEN [status |-> "threw", entry |-> [lat |-> 0, lng |-> 0, label |-> 0, query |-> query]]
  ELSE IF reply.kind = "empty"
    THEN [status |-> "null", entry |-> [lat |-> 0, lng |-> 0, label |-> 0, query |-> query]]
  ELSE [status |-> "result",
        entry |-> [lat |-> reply.m, lng |-> reply.m, label |-> reply.m, query |-> query]]

pushUnmatched(out, name) ==
  [out EXCEPT !.unmatched = Append(@, name)]

setStop(out, name, entry) ==
  [out EXCEPT !.stops = (name :> entry) @@ @]

\* main, lines 237-247: the try/catch around geocode.
classify_ErrorDropped(out, name, g) ==
  IF g.status = "result" THEN setStop(out, name, g.entry)
  ELSE IF g.status = "null" THEN pushUnmatched(out, name)
  ELSE out

classify(out, name, g) ==
  IF g.status = "result" THEN setStop(out, name, g.entry)
  ELSE pushUnmatched(out, name)

\* main, lines 232-235: a name without a query.
noQuery_Skip(out, name) == out

noQuery(out, name) == pushUnmatched(out, name)

Running == pc \notin {"idle", "done", "failed"}

Event(kind, name) == [kind |-> kind, name |-> name]

(***************************************************************************)
(* The resolver process.                                                   *)
(***************************************************************************)
ResolverInit ==
  /\ pc = "idle"
  /\ csvStops = << >>
  /\ idx = 1
  /\ existing = NoStore
  /\ output = NoStore
  /\ disk = NoFile
  /\ now = 1
  /\ runs = 0
  /\ events = << >>
  /\ lastWritten = NoStore

\* node scripts/geocodeStops.mjs: lines 212-227.
Start ==
  /\ pc \in {"idle", "done", "failed"}
  /\ runs < MaxRuns
  /\ \E rows \in CsvFiles :
       csvStops' = readCsvStops(rows)
  /\ existing' = readExisting(disk)
  /\ output' = initialOutput(existing', now)
  /\ now' = now + 1
  /\ runs' = runs + 1
  /\ idx' = 1
  /\ events' = << >>
  /\ pc' = "loop"
  /\ UNCHANGED << disk, lastWritten >>
  /\ UNCHANGED otherThanResolver

\* readCsvStops rejects (no CSV file): main rejects, process.exit(1).
StartFail ==
  /\ pc \in {"idle", "done", "failed"}
  /\ runs < MaxRuns
  /\ runs' = runs + 1
  /\ now' = now + 1
  /\ pc' = "failed"
  /\ csvStops' = << >>
  /\ idx' = 1
  /\ existing' = NoStore
  /\ output' = NoStore
  /\ events' = << >>
  /\ UNCHANGED << disk, lastWritten >>
  /\ UNCHANGED otherThanResolver

\* line 230: continue.
SkipClassified ==
  /\ pc = "loop"
  /\ idx <= Len(csvStops)
  /\ alreadyClassified(output, csvStops[idx])
  /\ idx' = idx + 1
  /\ UNCHANGED << pc, csvStops, existing, output, disk, now, runs, events, lastWritten >>
  /\ UNCHANGED otherThanResolver

\* lines 231-235: no query for the name.
NoQuery ==
  /\ pc = "loop"
  /\ idx <= Len(csvStops)
  /\ ~alreadyClassified(output, csvStops[idx])
  /\ ~Truthy(guessQuery(csvStops[idx]))
  /\ output' = noQuery(output, csvStops[idx])
  /\ idx' = idx + 1
  /\ UNCHANGED << pc, csvStops, existing, disk, now, runs, events, lastWritten >>
  /\ UNCHANGED otherThanResolver

\* lines 238, 193: the request is sent.
Request ==
  /\ pc = "loop"
  /\ idx <= Len(csvStops)
  /\ ~alreadyClassified(output, csvStops[idx])
  /\ Truthy(guessQuery(csvStops[idx]))
  /\ events' = Append(events, Event("request", csvStops[idx]))
  /\ pc' = "fetch"
  /\ UNCHANGED << csvStops, idx, existing, output, disk, now, runs, lastWritten >>
  /\ UNCHANGED otherThanResolver

\* lines 238-247: the reply arrives and the name is classified.
Reply_ErrorContinues ==
  /\ pc = "fetch"
  /\ \E reply \in Replies :
       LET name == csvStops[idx]
           g == geocode(name, guessQuery(name), reply)
       IN  /\ output' = classify(output, name, g)
           /\ events' = Append(events, Event(g.status, name))
           /\ IF g.status = "threw"
                THEN pc' = "loop" /\ idx' = idx + 1
                ELSE pc' = "write" /\ idx' = idx
  /\ UNCHANGED << csvStops, existing, disk, now, runs, lastWritten >>
  /\ UNCHANGED otherThanResolver

Reply ==
  /\ pc = "fetch"
  /\ \E reply \in Replies :
       LET name == csvStops[idx]
           g == geocode(name, guessQuery(name), reply)
       IN  /\ output' = classify(output, name, g)
           /\ events' = Append(events, Event(g.status, name))
  /\ pc' = "write"
  /\ UNCHANGED << csvStops, idx, existing, disk, now, runs, lastWritten >>
  /\ UNCHANGED otherThanResolver

\* line 249: fs.writeFile opens OUT_PATH with flag 'w', which truncates it.
WriteOpen ==
  /\ pc = "write"
  /\ disk' = Truncated
  /\ pc' = "writing"
  /\ UNCHANGED << csvStops, idx, existing, output, now, runs, events, lastWritten >>
  /\ UNCHANGED otherThanResolver

\* line 249: the whole of JSON.stringify(output) is in the file.
WriteDone ==
  /\ pc = "writing"
  /\ disk' = FileOf(output)
  /\ lastWritten' = output
  /\ events' = Append(events, Event("write", csvStops[idx]))
  /\ pc' = "delay"
  /\ UNCHANGED << csvStops, idx, existing, output, now, runs >>
  /\ UNCHANGED otherThanResolver

\* line 250: await delay(1100), then the next name.
Delay ==
  /\ pc = "delay"
  /\ events' = Append(events, Event("delay", csvStops[idx]))
  /\ idx' = idx + 1
  /\ pc' = "loop"
  /\ UNCHANGED << csvStops, existing, output, disk, now, runs, lastWritten >>
  /\ UNCHANGED otherThanResolver

\* line 253: the write after the loop.
FinalWriteOpen ==
  /\ pc = "loop"
  /\ idx > Len(csvStops)
  /\ disk' = Truncated
  /\ pc' = "finalwriting"
  /\ UNCHANGED << csvStops, idx, existing, output, now, runs, events, lastWritten >>
  /\ UNCHANGED otherThanResolver

FinalWriteDone ==
  /\ pc = "finalwriting"
  /\ disk' = FileOf(output)
  /\ lastWritten' = output
  /\ pc' = "done"
  /\ UNCHANGED << csvStops, idx, existing, output, now, runs, events >>
  /\ UNCHANGED otherThanResolver

\* The process is terminated from outside: its memory is gone, the file
\* stays as it is.
Kill ==
  /\ Running
  /\ pc' = "idle"
  /\ csvStops' = << >>
  /\ idx' = 1
  /\ existing' = NoStore
  /\ output' = NoStore
  /\ events' = << >>
  /\ UNCHANGED << disk, now, runs, lastWritten >>
  /\ UNCHANGED otherThanResolver

ResolverNext ==
  \/ Start
  \/ StartFail
  \/ SkipClassified
  \/ NoQuery
  \/ Request
  \/ Reply
  \/ WriteOpen
  \/ WriteDone
  \/ Delay
  \/ FinalWriteOpen
  \/ FinalWriteDone
  \/ Kill

(***************************************************************************)
(* guessQuery applied to one stop name after another.                      *)
(***************************************************************************)
Space == <<" ">>

\* Names the rules are tried on: every key and member of the tables, every
\* city prefix alone and followed by more text, and names no table holds.
GuessNames ==
  DOMAIN overrides
    \cup denHaagStops \cup rotterdamStops \cup purmerendStops \cup zandvoortStops
    \cup Range(allCityPrefixes)
    \cup { allCityPrefixes[k] \o Space \o Zuid : k \in 1..Len(allCityPrefixes) }
    \cup { << >>, Onbekend, Dam, Weena, Zuid,
           Dam \o Comma \o Space \o Zuid,
           Zuid \o Space \o Amsterdam,
           <<"a","m","s","t","e","r","d","a","m">> }

GuessInit ==
  /\ gName \in GuessNames
  /\ gQuery = null
  /\ gDone = FALSE

Guess ==
  /\ ~gDone
  /\ gQuery' = guessQuery(gName)
  /\ gDone' = TRUE
  /\ UNCHANGED gName
  /\ UNCHANGED otherThanGuess

NextName ==
  /\ gDone
  /\ gName' \in GuessNames
  /\ gQuery' = null
  /\ gDone' = FALSE
  /\ UNCHANGED otherThanGuess

GuessNext ==
  \/ Guess
  \/ NextName

(***************************************************************************)
(* App: the trips, the filter and the aggregation (unnamed/part_000).      *)
(***************************************************************************)
MaxFilterTrips == 2

MaxAggTrips == 5

MaxTime == 3

Reis == "Reis"

Treinreizen == "Treinreizen"

BusTramMetro == "Bus, Tram en Metro reizen"

\* Date objects are numbers of milliseconds; 0 stands for null.
NoDate == 0

Trip(from, to, transactie, product, date) ==
  [from |-> from, to |-> to, transactie |-> transactie, product |-> product,
   date |-> date]

UpperCase ==
  << "A","B","C","D","E","F","G","H","I","J","K","L","M",
     "N","O","P","Q","R","S","T","U","V","W","X","Y","Z" >>

LowerCase ==
  << "a","b","c","d","e","f","g","h","i","j","k","l","m",
     "n","o","p","q","r","s","t","u","v","w","x","y","z" >>

\* String.prototype.toLowerCase, on the letters A-Z.
toLowerCase(s) ==
  [i \in 1..Len(s) |->
     IF \E k \in 1..26 : UpperCase[k] = s[i]
       THEN LowerCase[CHOOSE k \in 1..26 : UpperCase[k] = s[i]]
       ELSE s[i]]

WhiteSpace == {" ", "\t"}

\* String.prototype.trim.
trim(s) ==
  LET kept == { i \in 1..Len(s) : s[i] \notin WhiteSpace }
  IN  IF kept = {} THEN << >>
      ELSE SubSeq(s, CHOOSE i \in kept : \A j \in kept : i <= j,
                     CHOOSE i \in kept : \A j \in kept : i >= j)

\* filteredTrips, lines 201-212: the callback of trips.filter.
filterPass_ExclusiveStart(trip, st) ==
  LET query == toLowerCase(trim(st.search)) IN
  IF ~st.includeNonTrips /\ trip.transactie # Reis THEN FALSE
  ELSE IF Cardinality(st.selectedProducts) = 0 THEN FALSE
  ELSE IF trip.product \notin st.selectedProducts THEN FALSE
  ELSE IF st.dateStart # NoDate /\ trip.date <= st.dateStart THEN FALSE
  ELSE IF st.dateEnd # NoDate /\ trip.date > st.dateEnd THEN FALSE
  ELSE IF query # << >>
            /\ ~Includes(toLowerCase(trip.from \o Space \o trip.to), query)
    THEN FALSE
  ELSE TRUE

filterPass(trip, st) ==
  LET query == toLowerCase(trim(st.search)) IN
  IF ~st.includeNonTrips /\ trip.transactie # Reis THEN FALSE
  ELSE IF Cardinality(st.selectedProducts) = 0 THEN FALSE
  ELSE IF trip.product \notin st.selectedProducts THEN FALSE
  ELSE IF st.dateStart # NoDate /\ trip.date < st.dateStart THEN FALSE
  ELSE IF st.dateEnd # NoDate /\ trip.date > st.dateEnd THEN FALSE
  ELSE IF query # << >>
            /\ ~Includes(toLowerCase(trip.from \o Space \o trip.to), query)
    THEN FALSE
  ELSE TRUE

\* filteredTrips, lines 199-213.
filteredTrips(trips, st) ==
  LET Pass(trip) == filterPass(trip, st)
  IN  SelectSeq(trips, Pass)

\* Sequences over S of length at most n.
SeqsUpTo(S, n) == UNION { [1..k -> S] : k \in 0..n }

\* Trips the filter is applied to.
FilterTrips ==
  { Trip(Dam, Weena, Reis, Treinreizen, 1),
    Trip(Dam, Weena, Reis, Treinreizen, 2),
    Trip(Weena, Zuid, Reis, BusTramMetro, 3),
    Trip(Dam, Weena, "Saldo opladen", Treinreizen, 2),
    Trip(Zuid, Dam, Reis, "", 2),
    Trip(Dam, << >>, Reis, BusTramMetro, 2) }

\* What the user can have typed in the search field.
SearchTexts ==
  { << >>,
    <<"d","a","m">>,
    <<"D","A","M">>,
    <<" ","d","a","m"," ">>,
    <<" "," ">>,
    <<"m"," ","w">>,
    <<"x">> }

FilterStates ==
  [includeNonTrips : BOOLEAN,
   selectedProducts : SUBSET {Treinreizen, BusTramMetro},
   dateStart : {NoDate} \cup (1..MaxTime),
   dateEnd : {NoDate} \cup (1..MaxTime),
   search : SearchTexts]

FilterInit ==
  /\ fTrips \in SeqsUpTo(FilterTrips, MaxFilterTrips)
  /\ fState \in FilterStates
  /\ fFiltered = << >>
  /\ fDone = FALSE

\* The useMemo of filteredTrips is evaluated.
Filter ==
  /\ ~fDone
  /\ fFiltered' = filteredTrips(fTrips, fState)
  /\ fDone' = TRUE
  /\ UNCHANGED << fTrips, fState >>
  /\ UNCHANGED otherThanFilter

\* A state setter ran and the component renders again.
Rerender(st) ==
  /\ fDone
  /\ fState' = st
  /\ fFiltered' = << >>
  /\ fDone' = FALSE
  /\ UNCHANGED fTrips
  /\ UNCHANGED otherThanFilter

\* line 431: setSearch(event.target.value).
SetSearch ==
  \E text \in SearchTexts \ {fState.search} :
    Rerender([fState EXCEPT !.search = text])

\* lines 446-447: setDateStart.
SetDateStart ==
  \E d \in ({NoDate} \cup (1..MaxTime)) \ {fState.dateStart} :
    Rerender([fState EXCEPT !.dateStart = d])

\* lines 453-454: setDateEnd.
SetDateEnd ==
  \E d \in ({NoDate} \cup (1..MaxTime)) \ {fState.dateEnd} :
    Rerender([fState EXCEPT !.dateEnd = d])

\* line 109: setIncludeNonTrips (the state has a setter; no control of the
\* rendered page calls it).
SetIncludeNonTrips ==
  Rerender([fState EXCEPT !.includeNonTrips = ~@])

\* toggleProduct, lines 301-309.
toggleProduct(selected, product) ==
  IF product \in selected THEN selected \ {product} ELSE selected \cup {product}

ToggleProduct ==
  \E product \in {Treinreizen, BusTramMetro} :
    Rerender([fState EXCEPT !.selectedProducts = toggleProduct(@, product)])

FilterNext ==
  \/ Filter
  \/ SetSearch
  \/ SetDateStart
  \/ SetDateEnd
  \/ SetIncludeNonTrips
  \/ ToggleProduct

(***************************************************************************)
(* analytics: a JavaScript Map is the sequence of its entries in insertion *)
(* order.                                                                  *)
(***************************************************************************)
MapHas(m, key) == \E i \in 1..Len(m) : m[i].key = key

MapGet(m, key, default) ==
  IF MapHas(m, key)
    THEN m[CHOOSE i \in 1..Len(m) : m[i].key = key].value
    ELSE default

MapSet(m, key, value) ==
  IF MapHas(m, key)
    THEN [i \in 1..Len(m) |-> IF m[i].key = key THEN [key |-> key, value |-> value] ELSE m[i]]
    ELSE Append(m, [key |-> key, value |-> value])

MapValues(m) == [i \in 1..Len(m) |-> m[i].value]

Arrow == <<" ","-",">"," ">>

\* line 235: `${trip.from} -> ${trip.to}`.
routeKey_Undirected(from, to) ==
  IF \E i, j \in 1..Len(collation) : collation[i] = from /\ collation[j] = to /\ j < i
    THEN to \o Arrow \o from
    ELSE from \o Arrow \o to

routeKey(from, to) == from \o Arrow \o to

\* undefined, which is no stop's coordinate.
undefined == [lat |-> 0, lng |-> 0]

\* coords[name]: the entry of an own key, undefined otherwise.
lookup(coords, name) ==
  IF name \in DOMAIN coords THEN coords[name] ELSE undefined

EmptyAcc ==
  [routeMap |-> << >>, stopMap |-> << >>, productMap |-> << >>, missing |-> {}]

\* lines 221-252: the callback of filteredTrips.forEach.
analyticsStep_BothMissing(acc, trip, coords) ==
  LET fromCoord == lookup(coords, trip.from)
      toCoord == lookup(coords, trip.to)
      counted == [acc EXCEPT !.productMap =
                    MapSet(@, trip.product, MapGet(@, trip.product, 0) + 1)]
      noted == [counted EXCEPT !.missing =
                  @ \cup (IF fromCoord = undefined THEN {trip.from} ELSE {})
                    \cup (IF toCoord = undefined THEN {trip.to} ELSE {})]
      key == routeKey(trip.from, trip.to)
      route == MapGet(acc.routeMap, key,
                 [from |-> trip.from, to |-> trip.to,
                  fromCoord |-> fromCoord, toCoord |-> toCoord,
                  count |-> 0, products |-> << >>, dates |-> << >>])
      updated == [route EXCEPT
                    !.count = @ + 1,
                    !.products = MapSet(@, trip.product, MapGet(@, trip.product, 0) + 1),
                    !.dates = Append(@, trip.date)]
      stops1 == MapSet(noted.stopMap, trip.from, MapGet(noted.stopMap, trip.from, 0) + 1)
      stops2 == MapSet(stops1, trip.to, MapGet(stops1, trip.to, 0) + 1)
  IN  IF trip.transactie # Reis THEN counted
      ELSE IF trip.from = << >> \/ trip.to = << >> THEN counted
      ELSE IF fromCoord = undefined /\ toCoord = undefined THEN noted
      ELSE [noted EXCEPT !.routeMap = MapSet(@, key, updated), !.stopMap = stops2]

analyticsStep_AnyTransaction(acc, trip, coords) ==
  LET fromCoord == lookup(coords, trip.from)
      toCoord == lookup(coords, trip.to)
      counted == [acc EXCEPT !.productMap =
                    MapSet(@, trip.product, MapGet(@, trip.product, 0) + 1)]
      noted == [counted EXCEPT !.missing =
                  @ \cup (IF fromCoord = undefined THEN {trip.from} ELSE {})
                    \cup (IF toCoord = undefined THEN {trip.to} ELSE {})]
      key == routeKey(trip.from, trip.to)
      route == MapGet(acc.routeMap, key,
                 [from |-> trip.from, to |-> trip.to,
                  fromCoord |-> fromCoord, toCoord |-> toCoord,
                  count |-> 0, products |-> << >>, dates |-> << >>])
      updated == [route EXCEPT
                    !.count = @ + 1,
                    !.products = MapSet(@, trip.product, MapGet(@, trip.product, 0) + 1),
                    !.dates = Append(@, trip.date)]
      stops1 == MapSet(noted.stopMap, trip.from, MapGet(noted.stopMap, trip.from, 0) + 1)
      stops2 == MapSet(stops1, trip.to, MapGet(stops1, trip.to, 0) + 1)
  IN  IF trip.from = << >> \/ trip.to = << >> THEN counted
      ELSE IF fromCoord = undefined \/ toCoord = undefined THEN noted
      ELSE [noted EXCEPT !.routeMap = MapSet(@, key, updated), !.stopMap = stops2]

analyticsStep_StopsFirst(acc, trip, coords) ==
  LET fromCoord == lookup(coords, trip.from)
      toCoord == lookup(coords, trip.to)
      counted == [acc EXCEPT !.productMap =
                    MapSet(@, trip.product, MapGet(@, trip.product, 0) + 1)]
      noted == [counted EXCEPT !.missing =
                  @ \cup (IF fromCoord = undefined THEN {trip.from} ELSE {})
                    \cup (IF toCoord = undefined THEN {trip.to} ELSE {})]
      key == routeKey(trip.from, trip.to)
      route == MapGet(acc.routeMap, key,
                 [from |-> trip.from, to |-> trip.to,
                  fromCoord |-> fromCoord, toCoord |-> toCoord,
                  count |-> 0, products |-> << >>, dates |-> << >>])
      updated == [route EXCEPT
                    !.count = @ + 1,
                    !.products = MapSet(@, trip.product, MapGet(@, trip.product, 0) + 1),
                    !.dates = Append(@, trip.date)]
      stops1 == MapSet(noted.stopMap, trip.from, MapGet(noted.stopMap, trip.from, 0) + 1)
      stops2 == MapSet(stops1, trip.to, MapGet(stops1, trip.to, 0) + 1)
  IN  IF trip.transactie # Reis THEN counted
      ELSE IF trip.from = << >> \/ trip.to = << >> THEN counted
      ELSE IF fromCoord = undefined \/ toCoord = undefined
        THEN [noted EXCEPT !.stopMap = stops2]
      ELSE [noted EXCEPT !.routeMap = MapSet(@, key, updated), !.stopMap = stops2]

analyticsStep(acc, trip, coords) ==
  LET fromCoord == lookup(coords, trip.from)
      toCoord == lookup(coords, trip.to)
      counted == [acc EXCEPT !.productMap =
                    MapSet(@, trip.product, MapGet(@, trip.product, 0) + 1)]
      noted == [counted EXCEPT !.missing =
                  @ \cup (IF fromCoord = undefined THEN {trip.from} ELSE {})
                    \cup (IF toCoord = undefined THEN {trip.to} ELSE {})]
      key == routeKey(trip.from, trip.to)
      route == MapGet(acc.routeMap, key,
                 [from |-> trip.from, to |-> trip.to,
                  fromCoord |-> fromCoord, toCoord |-> toCoord,
                  count |-> 0, products |-> << >>, dates |-> << >>])
      updated == [route EXCEPT
                    !.count = @ + 1,
                    !.products = MapSet(@, trip.product, MapGet(@, trip.product, 0) + 1),
                    !.dates = Append(@, trip.date)]
      stops1 == MapSet(noted.stopMap, trip.from, MapGet(noted.stopMap, trip.from, 0) + 1)
      stops2 == MapSet(stops1, trip.to, MapGet(stops1, trip.to, 0) + 1)
  IN  IF trip.transactie # Reis THEN counted
      ELSE IF trip.from = << >> \/ trip.to = << >> THEN counted
      ELSE IF fromCoord = undefined \/ toCoord = undefined THEN noted
      ELSE [noted EXCEPT !.routeMap = MapSet(@, key, updated), !.stopMap = stops2]

RECURSIVE forEachTrip(_, _, _)
forEachTrip(acc, trips, coords) ==
  IF trips = << >> THEN acc
  ELSE forEachTrip(analyticsStep(acc, Head(trips), coords), Tail(trips), coords)

\* Array.prototype.sort((a, b) => b.count - a.count): stable, descending.
insertByCount(sorted, x) ==
  LET k == Cardinality({ i \in 1..Len(sorted) : sorted[i].count >= x.count })
  IN  SubSeq(sorted, 1, k) \o << x >> \o SubSeq(sorted, k + 1, Len(sorted))

RECURSIVE sortByCount(_)
sortByCount(seq) ==
  IF seq = << >> THEN << >>
  ELSE insertByCount(sortByCount(SubSeq(seq, 1, Len(seq) - 1)), seq[Len(seq)])

\* analytics, lines 215-273.
analytics(trips, coords) ==
  LET acc == forEachTrip(EmptyAcc, trips, coords)
      InMissing(n) == n \in acc.missing
  IN  [routes |-> sortByCount(MapValues(acc.routeMap)),
       stops |-> sortByCount([i \in 1..Len(acc.stopMap) |->
                   [name |-> acc.stopMap[i].key, count |-> acc.stopMap[i].value,
                    coord |-> lookup(coords, acc.stopMap[i].key)]]),
       products |-> sortByCount([i \in 1..Len(acc.productMap) |->
                   [name |-> acc.productMap[i].key, count |-> acc.productMap[i].value]]),
       missing |-> SelectSeq(collation, InMissing)]

NoAnalytics ==
  [routes |-> << >>, stops |-> << >>, products |-> << >>, missing |-> << >>]

\* Filtered trips analytics is applied to.
AggTrips ==
  { Trip(Dam, Weena, Reis, Treinreizen, 1),
    Trip(Weena, Dam, Reis, BusTramMetro, 2),
    Trip(Dam, Zuid, Reis, Treinreizen, 3),
    Trip(Dam, Weena, "Saldo opladen", Treinreizen, 2),
    Trip(Dam, << >>, Reis, BusTramMetro, 2),
    Trip(<< >>, Weena, Reis, Treinreizen, 3) }

AppStops == {Dam, Weena, Zuid}

Coord(k) == [lat |-> k, lng |-> k]

StopCoords == (Dam :> Coord(1)) @@ (Weena :> Coord(2)) @@ (Zuid :> Coord(3))

\* The stops of stopCoords.json: any part of the stops may be resolved.
CoordMaps == { [n \in S |-> StopCoords[n]] : S \in SUBSET AppStops }

AggInit ==
  /\ aTrips \in SeqsUpTo(AggTrips, MaxAggTrips)
  /\ aCoords \in CoordMaps
  /\ aResult = NoAnalytics
  /\ aDone = FALSE

\* The useMemo of analytics is evaluated.
Aggregate ==
  /\ ~aDone
  /\ aResult' = analytics(aTrips, aCoords)
  /\ aDone' = TRUE
  /\ UNCHANGED << aTrips, aCoords >>
  /\ UNCHANGED otherThanAgg

\* filteredTrips changes: one more trip passes the filter.
FilteredTripsGrow ==
  /\ aDone
  /\ Len(aTrips) < MaxAggTrips
  /\ \E trip \in AggTrips : aTrips' = Append(aTrips, trip)
  /\ aResult' = NoAnalytics
  /\ aDone' = FALSE
  /\ UNCHANGED aCoords
  /\ UNCHANGED otherThanAgg

AggNext ==
  \/ Aggregate
  \/ FilteredTripsGrow

(***************************************************************************)
(* App: the session, from the load of the data to the user's filters.      *)
(***************************************************************************)
MaxRows == 3

Digits == << "0","1","2","3","4","5","6","7","8","9" >>

IsDigit(c) == \E k \in 1..10 : Digits[k] = c

DigitValue(c) == (CHOOSE k \in 1..10 : Digits[k] = c) - 1

\* NaN, of which only !NaN is used.
NaN == -1

RECURSIVE decimal(_)
decimal(s) ==
  IF s = << >> THEN 0
  ELSE 10 * decimal(SubSeq(s, 1, Len(s) - 1)) + DigitValue(s[Len(s)])

\* Number(part) for a part of a date: '' is 0, decimal digits are their
\* value, anything else is NaN.
Number(s) ==
  IF \A i \in 1..Len(s) : IsDigit(s[i]) THEN decimal(s) ELSE NaN

\* String.prototype.split('-').
RECURSIVE split(_)
split(s) ==
  IF \A i \in 1..Len(s) : s[i] # "-" THEN << s >>
  ELSE LET k == CHOOSE i \in 1..Len(s) : s[i] = "-" /\ \A j \in 1..(i-1) : s[j] # "-"
       IN  << SubSeq(s, 1, k - 1) >> \o split(SubSeq(s, k + 1, Len(s)))

\* The calendar as months of 31 days: dates keep their order.
dayNumber(year, month, day) ==
  ((IF year < 100 THEN 1900 + year ELSE year) * 12 + month - 1) * 31 + day

\* new Date(year, month - 1, day): midnight in the browser's time zone, in
\* hours since the start of the calendar.
localMidnight(year, month, day, zone) == dayNumber(year, month, day) * 24 - zone

\* new Date('YYYY-MM-DD'), the value of a date input: midnight UTC.
newDate(value) ==
  LET parts == split(value)
  IN  dayNumber(Number(parts[1]), Number(parts[2]), Number(parts[3])) * 24

\* parseDate, lines 63-68.
parseDate(value, zone) ==
  IF value = << >> THEN NoDate
  ELSE LET parts == split(value)
           num(k) == IF k <= Len(parts) THEN Number(parts[k]) ELSE NaN
       IN  IF num(1) <= 0 \/ num(2) <= 0 \/ num(3) <= 0 THEN NoDate
           ELSE localMidnight(num(3), num(2), num(1), zone)

Row(datum, vertrek, bestemming, transactie, product) ==
  [Datum |-> datum, Vertrek |-> vertrek, Bestemming |-> bestemming,
   Transactie |-> transactie, Product |-> product]

\* trips, lines 149-168.
tripsOf(rws, zone) ==
  LET all == [i \in 1..Len(rws) |->
                Trip(rws[i].Vertrek, rws[i].Bestemming, rws[i].Transactie,
                     rws[i].Product, parseDate(rws[i].Datum, zone))]
      HasDate(trip) == trip.date # NoDate
  IN  SelectSeq(all, HasDate)

\* allProducts, lines 170-176, as the set of its elements: its order is
\* only the order of the chips.
allProductsOf_WithEmpty(ts) ==
  { ts[i].product : i \in 1..Len(ts) }

allProductsOf(ts) ==
  { ts[i].product : i \in 1..Len(ts) } \ {""}

\* dataRange, lines 185-191.
dataRangeOf(ts) ==
  IF Len(ts) = 0 THEN [min |-> NoDate, max |-> NoDate]
  ELSE LET dates == { ts[i].date : i \in 1..Len(ts) }
       IN  [min |-> CHOOSE d \in dates : \A e \in dates : d <= e,
            max |-> CHOOSE d \in dates : \A e \in dates : d >= e]

\* The data rows trips.csv may hold.
CsvRows ==
  << Row(<<"2","1","-","0","9","-","2","0","2","4">>, Dam, Weena, Reis, Treinreizen),
     Row(<<"2","2","-","0","9","-","2","0","2","4">>, Weena, Zuid, Reis, BusTramMetro),
     Row(<<"2","2","-","0","9","-","2","0","2","4">>, Zuid, Dam, Reis, ""),
     Row(<<"2","3","-","0","9","-","2","0","2","4">>, Dam, << >>, "Saldo opladen", Treinreizen),
     Row(<< >>, Dam, Weena, Reis, Treinreizen),
     Row(<<"2","0","2","4","/","0","9","/","2","1">>, Weena, Dam, Reis, BusTramMetro) >>

\* The elements of seq at the positions of S, in their order.
RECURSIVE pick(_, _)
pick(seq, S) ==
  IF seq = << >> THEN << >>
  ELSE pick(SubSeq(seq, 1, Len(seq) - 1), S \ {Len(seq)})
         \o (IF Len(seq) \in S THEN << seq[Len(seq)] >> ELSE << >>)

Datasets ==
  { pick(CsvRows, S) : S \in { T \in SUBSET (1..Len(CsvRows)) : Cardinality(T) <= MaxRows } }

\* What Papa.parse salvages from a body that is not well-formed CSV.
Salvaged == { d \in Datasets : Len(d) <= 1 }

\* fetch('data/trips.csv'): the request fails, the status is not a success,
\* the body is not well-formed CSV, or the body is the CSV of a dataset.
CsvResponses ==
  { [kind |-> "rejected", data |-> << >>], [kind |-> "notOk", data |-> << >>] }
    \cup { [kind |-> "malformed", data |-> d] : d \in Salvaged }
    \cup { [kind |-> "csv", data |-> d] : d \in Datasets }

\* fetch('data/stopCoords.json'): the request fails, the status is not a
\* success, the body is not JSON, or the body is a store.
CoordsResponses ==
  { [kind |-> "rejected", stops |-> << >>], [kind |-> "notOk", stops |-> << >>],
    [kind |-> "notJson", stops |-> << >>] }
    \cup { [kind |-> "json", stops |-> [n \in S |-> StopCoords[n]]] :
             S \in {AppStops, {Dam, Weena}, {}} }

\* error: null.
NoError == ""

\* load, lines 116-144: what the setters are called with.
load(csvRes, coordsRes) ==
  LET failed(message) == [rows |-> << >>, coords |-> << >>, error |-> message]
  IN  IF csvRes.kind = "rejected" \/ coordsRes.kind = "rejected"
        THEN failed("Failed to fetch")
      ELSE IF csvRes.kind = "notOk" THEN failed("Failed to load trips CSV.")
      ELSE IF coordsRes.kind = "notOk" THEN failed("Failed to load stop coordinates.")
      ELSE IF coordsRes.kind = "notJson" THEN failed("Unexpected token")
      ELSE [rows |-> csvRes.data, coords |-> coordsRes.stops, error |-> NoError]

\* The effect of lines 178-183, on the state it reads and sets.
productsEffect_WhenEmpty(all, st) ==
  IF all # {} /\ st.selectedProducts = {}
    THEN [selectedProducts |-> all, productsInitialized |-> TRUE]
    ELSE st

productsEffect(all, st) ==
  IF all # {} /\ ~st.productsInitialized
    THEN [selectedProducts |-> all, productsInitialized |-> TRUE]
    ELSE st

\* The effect of lines 193-197, on the state it reads and sets.
datesEffect(range, st) ==
  IF range.min = NoDate \/ range.max = NoDate THEN st
  ELSE [dateStart |-> IF st.dateStart = NoDate THEN range.min ELSE st.dateStart,
        dateEnd |-> IF st.dateEnd = NoDate THEN range.max ELSE st.dateEnd]

TimeZones == {0, 2}

\* What the user can have typed in the search field during a session.
SessionSearchTexts == { << >>, <<"d","a","m">> }

\* What a date input can hold.
DateInputs ==
  { << >>, <<"2","0","2","4","-","0","9","-","2","2">> }

\* The values the component derives from its state when it renders.
appTrips == tripsOf(appRows, tz)

allProducts == allProductsOf(appTrips)

dataRange == dataRangeOf(appTrips)

\* No control of the component calls setIncludeNonTrips.
appFilterState ==
  [includeNonTrips |-> FALSE, selectedProducts |-> selectedProducts,
   dateStart |-> dateStart, dateEnd |-> dateEnd, search |-> search]

appFilteredTrips == filteredTrips(appTrips, appFilterState)

appAnalytics == analytics(appFilteredTrips, appCoords)

\* lines 319-340: what the component returns.
view ==
  IF loading THEN "loading"
  ELSE IF error # NoError THEN "error"
  ELSE "map"

productsState ==
  [selectedProducts |-> selectedProducts, productsInitialized |-> productsInitialized]

datesState == [dateStart |-> dateStart, dateEnd |-> dateEnd]

\* An effect of the last render has a state to set.
EffectPending ==
  \/ productsEffect(allProducts, productsState) # productsState
  \/ datesEffect(dataRange, datesState) # datesState

AppInit ==
  /\ tz \in TimeZones
  /\ appRows = << >>
  /\ appCoords = << >>
  /\ loading = TRUE
  /\ error = NoError
  /\ selectedProducts = {}
  /\ productsInitialized = FALSE
  /\ dateStart = NoDate
  /\ dateEnd = NoDate
  /\ search = << >>
  /\ lastAct = "mount"
  /\ loadFailure = {}
  /\ touched = FALSE

\* load settles, lines 116-144: its setters are applied in one render.
Load ==
  /\ loading
  /\ \E csvRes \in CsvResponses, coordsRes \in CoordsResponses :
       LET result == load(csvRes, coordsRes) IN
       /\ appRows' = result.rows
       /\ appCoords' = result.coords
       /\ error' = result.error
       /\ loadFailure' = (IF csvRes.kind # "csv" THEN {"trips"} ELSE {})
                           \cup (IF coordsRes.kind # "json" THEN {"coords"} ELSE {})
  /\ loading' = FALSE
  /\ lastAct' = "load"
  /\ UNCHANGED << tz, selectedProducts, productsInitialized, dateStart, dateEnd,
                  search, touched >>
  /\ UNCHANGED otherThanApp

\* The effects of lines 178-183 and 193-197 run after a render.
Effects ==
  /\ EffectPending
  /\ LET p == productsEffect(allProducts, productsState)
         d == datesEffect(dataRange, datesState)
     IN  /\ selectedProducts' = p.selectedProducts
         /\ productsInitialized' = p.productsInitialized
         /\ dateStart' = d.dateStart
         /\ dateEnd' = d.dateEnd
  /\ lastAct' = "effects"
  /\ UNCHANGED << tz, appRows, appCoords, loading, error, search, loadFailure, touched >>
  /\ UNCHANGED otherThanApp

\* The controls are rendered and the effects of the last render have run.
Interactive == view = "map" /\ ~EffectPending

\* line 502: a product chip is clicked.
ClickProduct ==
  /\ Interactive
  /\ \E product \in allProducts :
       selectedProducts' = toggleProduct(selectedProducts, product)
  /\ lastAct' = "toggleProduct"
  /\ touched' = TRUE
  /\ UNCHANGED << tz, appRows, appCoords, loading, error, productsInitialized,
                  dateStart, dateEnd, search, loadFailure >>
  /\ UNCHANGED otherThanApp

\* line 431: the search field changes.
TypeSearch ==
  /\ Interactive
  /\ \E text \in SessionSearchTexts \ {search} : search' = text
  /\ lastAct' = "setSearch"
  /\ touched' = TRUE
  /\ UNCHANGED << tz, appRows, appCoords, loading, error, selectedProducts,
                  productsInitialized, dateStart, dateEnd, loadFailure >>
  /\ UNCHANGED otherThanApp

\* lines 446-447: the start of the date range changes.
PickDateStart ==
  /\ Interactive
  /\ \E value \in DateInputs :
       dateStart' = IF value # << >> THEN newDate(value) ELSE NoDate
  /\ lastAct' = "setDateStart"
  /\ touched' = TRUE
  /\ UNCHANGED << tz, appRows, appCoords, loading, error, selectedProducts,
                  productsInitialized, dateEnd, search, loadFailure >>
  /\ UNCHANGED otherThanApp

\* lines 453-454: the end of the date range changes.
PickDateEnd ==
  /\ Interactive
  /\ \E value \in DateInputs :
       dateEnd' = IF value # << >> THEN newDate(value) ELSE NoDate
  /\ lastAct' = "setDateEnd"
  /\ touched' = TRUE
  /\ UNCHANGED << tz, appRows, appCoords, loading, error, selectedProducts,
                  productsInitialized, dateStart, search, loadFailure >>
  /\ UNCHANGED otherThanApp

AppNext ==
  \/ Load
  \/ Effects
  \/ ClickProduct
  \/ TypeSearch
  \/ PickDateStart
  \/ PickDateEnd

vars == << resolverVars, guessVars, filterVars, aggVars, appVars >>

GuessIdle ==
  /\ gName = << >>
  /\ gQuery = null
  /\ gDone = FALSE

FilterIdle ==
  /\ fTrips = << >>
  /\ fState = [includeNonTrips |-> FALSE, selectedProducts |-> {},
               dateStart |-> NoDate, dateEnd |-> NoDate, search |-> << >>]
  /\ fFiltered = << >>
  /\ fDone = FALSE

AggIdle ==
  /\ aTrips = << >>
  /\ aCoords = << >>
  /\ aResult = NoAnalytics
  /\ aDone = FALSE

AppIdle ==
  /\ tz = 0
  /\ appRows = << >>
  /\ appCoords = << >>
  /\ loading = TRUE
  /\ error = NoError
  /\ selectedProducts = {}
  /\ productsInitialized = FALSE
  /\ dateStart = NoDate
  /\ dateEnd = NoDate
  /\ search = << >>
  /\ lastAct = "mount"
  /\ loadFailure = {}
  /\ touched = FALSE

Init ==
  /\ ResolverInit
  /\ GuessIdle
  /\ FilterIdle
  /\ AggIdle
  /\ AppIdle

Next == ResolverNext

Spec == Init /\ [][Next]_vars

InitGuess ==
  /\ ResolverInit
  /\ GuessInit
  /\ FilterIdle
  /\ AggIdle
  /\ AppIdle

SpecGuess == InitGuess /\ [][GuessNext]_vars

InitFilter ==
  /\ ResolverInit
  /\ GuessIdle
  /\ FilterInit
  /\ AggIdle
  /\ AppIdle

SpecFilter == InitFilter /\ [][FilterNext]_vars

InitAgg ==
  /\ ResolverInit
  /\ GuessIdle
  /\ FilterIdle
  /\ AggInit
  /\ AppIdle

SpecAgg == InitAgg /\ [][AggNext]_vars

InitApp ==
  /\ ResolverInit
  /\ GuessIdle
  /\ FilterIdle
  /\ AggIdle
  /\ AppInit

SpecApp == InitApp /\ [][AppNext]_vars

(***************************************************************************)
(* Properties of the resolver.                                             *)
(***************************************************************************)
Classified(store) == DOMAIN store.stops \cup Range(store.unmatched)

Requested == { events[i].name : i \in { j \in 1..Len(events) : events[j].kind = "request" } }

\* The loop has gone past the name.
Visited(name) ==
  /\ pc \notin {"idle", "failed"}
  /\ \E i \in 1..Len(csvStops) : csvStops[i] = name /\ i < idx

\* C1 (as stated): the sentinel "Onbekend" is skipped entirely: it is not
\* requested and is in neither stops nor unmatched, in memory and on disk.
C1_SentinelInNeitherSet ==
  /\ Onbekend \notin Requested
  /\ Onbekend \notin Classified(output)
  /\ Onbekend \notin Classified(disk.content)

\* C1 (amended): the sentinel "Onbekend" is never requested and never a key
\* of stops, but once the loop has passed it, it is a member of unmatched in
\* memory, and of unmatched in every store written from then on.
C1_SentinelUnmatchedNotGeocoded ==
  /\ Onbekend \notin Requested
  /\ Onbekend \notin DOMAIN output.stops
  /\ Onbekend \notin DOMAIN disk.content.stops
  /\ Visited(Onbekend) => Contains(output.unmatched, Onbekend)
  /\ (Visited(Onbekend) /\ pc \in {"delay", "done"})
       => Contains(disk.content.unmatched, Onbekend)

C1_Witness ==
  /\ pc = "done"
  /\ Visited(Onbekend)
  /\ Requested # {}
  /\ Contains(disk.content.unmatched, Onbekend)

NoOverlap(store) ==
  \A n \in DOMAIN store.stops : ~Contains(store.unmatched, n)

\* C2: no name is both a key of stops and a member of unmatched, in the
\* resolver's memory and in every store on disk.
C2_StopsUnmatchedDisjoint ==
  /\ NoOverlap(output)
  /\ NoOverlap(disk.content)

C2_Witness ==
  /\ pc = "done"
  /\ runs >= 2
  /\ disk = FileOf(output)
  /\ DOMAIN output.stops # {}
  /\ Len(output.unmatched) >= 2

\* C3: after a termination at any point, the re-run starts from the last
\* written store: every classification of the last completed write is still
\* present, unchanged, and no name classified in it is requested.
C3_RestartKeepsClassifications ==
  pc \notin {"idle", "failed"} =>
    /\ \A n \in DOMAIN lastWritten.stops :
         n \in DOMAIN output.stops /\ output.stops[n] = lastWritten.stops[n]
    /\ Range(lastWritten.unmatched) \subseteq Range(output.unmatched)
    /\ Requested \cap Classified(existing) = {}

\* C4: between any two requests of a run the store was written and, after
\* that write, the delay was awaited; and what a write leaves on disk is the
\* whole store, stops and unmatched, as it is in memory.
C4_WriteAndDelayBetweenRequests ==
  /\ \A i, j \in 1..Len(events) :
       (i < j /\ events[i].kind = "request" /\ events[j].kind = "request")
         => \E k, l \in (i+1)..(j-1) :
              /\ k < l
              /\ events[k].kind = "write" /\ events[k].name = events[i].name
              /\ events[l].kind = "delay" /\ events[l].name = events[i].name
  /\ pc = "delay" => disk = FileOf(output)
  /\ (pc = "loop" /\ Len(events) > 0) => events[Len(events)].kind = "delay"

C4_Witness ==
  /\ pc = "fetch"
  /\ Cardinality(Requested) >= 2
  /\ \E i \in 1..Len(events) : events[i].kind = "threw"
  /\ \E i \in 1..Len(events) : events[i].kind = "result"

\* Every name of the CSV is classified in the store read at start-up.
FullyClassified ==
  \A i \in 1..Len(csvStops) : alreadyClassified(existing, csvStops[i])

\* C5: a run on a store that already classifies every name of the CSV
\* issues no request and leaves stops and unmatched as read; the store it
\* writes differs from the one read in generatedAt only.
C5_RerunOnClassifiedStore ==
  (pc \notin {"idle", "failed"} /\ FullyClassified) =>
    /\ Requested = {}
    /\ output.stops = existing.stops
    /\ output.unmatched = existing.unmatched
    /\ pc = "done" =>
         /\ disk = FileOf([existing EXCEPT !.generatedAt = output.generatedAt])
         /\ output.generatedAt # existing.generatedAt

C5_Witness ==
  /\ pc = "done"
  /\ FullyClassified
  /\ Len(csvStops) >= 3
  /\ DOMAIN existing.stops # {}
  /\ Len(existing.unmatched) >= 2
  /\ disk.content.stops = existing.stops

FailedLookups ==
  { events[i].name : i \in { j \in 1..Len(events) : events[j].kind \in {"threw", "null"} } }

\* C6: a name whose lookup failed (the request threw, the status was not a
\* success, or there were no results) is in unmatched and not in stops, the
\* store written next holds it, the run goes on to the next name instead of
\* aborting, and no name is requested twice in a run.
C6_FailedLookupIsUnmatched ==
  /\ \A n \in FailedLookups :
       /\ Contains(output.unmatched, n)
       /\ n \notin DOMAIN output.stops
       /\ pc \in {"delay", "loop", "fetch", "done"} =>
            Contains(disk.content.unmatched, n)
       /\ pc = "delay" => disk = FileOf(output)
       /\ pc \in {"loop", "done"} => Visited(n)
  /\ pc = "failed" => events = << >>
  /\ \A i, j \in 1..Len(events) :
       (events[i].kind = "request" /\ events[j].kind = "request"
          /\ events[i].name = events[j].name) => i = j

C6_Witness ==
  /\ pc = "fetch"
  /\ FailedLookups # {}
  /\ csvStops[idx] \notin FailedLookups
  /\ \E i \in 1..Len(events) : events[i].kind = "threw"

(***************************************************************************)
(* Properties of guessQuery.                                               *)
(***************************************************************************)
HasCityPrefix(name) ==
  \E k \in 1..Len(allCityPrefixes) : StartsWith(name, allCityPrefixes[k])

CitySets == << <<denHaagStops, DenHaag>>, <<rotterdamStops, Rotterdam>>,
               <<purmerendStops, Purmerend>>, <<zandvoortStops, Zandvoort>> >>

InCitySet(name) == \E k \in 1..Len(CitySets) : name \in CitySets[k][1]

\* The city of the first set that holds the name.
CityOf(name) ==
  CitySets[CHOOSE k \in 1..Len(CitySets) :
             /\ name \in CitySets[k][1]
             /\ \A h \in 1..(k-1) : name \notin CitySets[h][1]][2]

\* The six rules in their order: whether the rule matches, and its result.
Rules(name) ==
  << [matches |-> name = << >> \/ name = Onbekend, query |-> null],
     [matches |-> name \in DOMAIN overrides,
      query |-> IF name \in DOMAIN overrides THEN overrides[name] ELSE null],
     [matches |-> Includes(name, Comma), query |-> name \o SuffixNL],
     [matches |-> HasCityPrefix(name), query |-> name \o SuffixNL],
     [matches |-> InCitySet(name),
      query |-> IF InCitySet(name) THEN name \o SuffixCity(CityOf(name)) ELSE null],
     [matches |-> TRUE, query |-> name \o SuffixCity(Amsterdam)] >>

FirstMatch(name) ==
  CHOOSE k \in 1..6 :
    /\ Rules(name)[k].matches
    /\ \A h \in 1..(k-1) : ~Rules(name)[h].matches

\* C7: guessQuery returns the result of the first matching rule in the order
\* sentinel, override table, comma, city prefix, city set, Amsterdam: a name
\* of the override table yields the override's value whatever later rules
\* match, and a name matching none of the first five rules yields a query
\* ending with ", Amsterdam, Netherlands".
C7_FirstMatchingRuleWins ==
  gDone =>
    /\ gQuery = Rules(gName)[FirstMatch(gName)].query
    /\ gName \in DOMAIN overrides => gQuery = overrides[gName]
    /\ FirstMatch(gName) = 6 => EndsWith(gQuery, SuffixCity(Amsterdam))

C7_Witness ==
  /\ gDone
  /\ gName \in DOMAIN overrides
  /\ Includes(gName, Comma)
  /\ HasCityPrefix(gName)
  /\ InCitySet(gName)
  /\ gQuery = overrides[gName]

(***************************************************************************)
(* Properties of the filter.                                               *)
(***************************************************************************)
InRange(trip, st) ==
  /\ st.dateStart # NoDate => st.dateStart <= trip.date
  /\ st.dateEnd # NoDate => trip.date <= st.dateEnd

MatchText(trip) == toLowerCase(trip.from \o Space \o trip.to)

\* C9 (as stated): a trip passes iff its transaction type is "Reis" or
\* include-non-journey is on, its product is in the accepted set, its date is
\* within the inclusive range, and the search text, when non-empty, is a
\* substring of the lower-cased "origin destination".
C9_PassIffSearchTextIsSubstring ==
  LET P(trip) ==
        /\ trip.transactie = Reis \/ fState.includeNonTrips
        /\ trip.product \in fState.selectedProducts
        /\ InRange(trip, fState)
        /\ fState.search # << >> => Includes(MatchText(trip), fState.search)
  IN  fDone => fFiltered = SelectSeq(fTrips, P)

\* C9 (amended): a trip passes iff its transaction type is "Reis" or
\* include-non-journey is on, its product is in the accepted set, its date is
\* within the inclusive range (a null bound does not restrict), and the
\* search text trimmed and lower-cased, when non-empty, is a substring of the
\* lower-cased "origin destination".
C9_PassIffNormalisedSearchIsSubstring ==
  LET P(trip) ==
        /\ trip.transactie = Reis \/ fState.includeNonTrips
        /\ trip.product \in fState.selectedProducts
        /\ InRange(trip, fState)
        /\ toLowerCase(trim(fState.search)) # << >>
             => Includes(MatchText(trip), toLowerCase(trim(fState.search)))
  IN  fDone => fFiltered = SelectSeq(fTrips, P)

C9_Witness ==
  /\ fDone
  /\ fState.search = <<"D","A","M">>
  /\ fState.dateStart = 2
  /\ fState.dateEnd = 2
  /\ Len(fTrips) = 2
  /\ Len(fFiltered) = 1
  /\ fFiltered[1].date = 2
  /\ \E i \in 1..2 : fTrips[i].date = 1

(***************************************************************************)
(* Properties of analytics.                                                *)
(***************************************************************************)
\* A trip that counts for a route: a journey with both names and both
\* coordinates.
Eligible(trip) ==
  /\ trip.transactie = Reis
  /\ trip.from # << >>
  /\ trip.to # << >>
  /\ trip.from \in DOMAIN aCoords
  /\ trip.to \in DOMAIN aCoords

EligiblePairs ==
  { << aTrips[i].from, aTrips[i].to >> : i \in { j \in 1..Len(aTrips) : Eligible(aTrips[j]) } }

RouteCount(from, to) ==
  Cardinality({ i \in 1..Len(aTrips) :
                  Eligible(aTrips[i]) /\ aTrips[i].from = from /\ aTrips[i].to = to })

\* C8: the route aggregates hold exactly one aggregate per ordered
\* (origin, destination) pair of eligible trips, and its count is the number
\* of eligible trips with that origin and that destination: A -> B and
\* B -> A are never merged.
C8_OneRoutePerOrderedPair ==
  aDone =>
    /\ { << aResult.routes[i].from, aResult.routes[i].to >> : i \in 1..Len(aResult.routes) }
         = EligiblePairs
    /\ Len(aResult.routes) = Cardinality(EligiblePairs)
    /\ \A i \in 1..Len(aResult.routes) :
         aResult.routes[i].count
           = RouteCount(aResult.routes[i].from, aResult.routes[i].to)

C8_Witness ==
  /\ aDone
  /\ Len(aTrips) = 5
  /\ \E i, j \in 1..Len(aResult.routes) :
       /\ aResult.routes[i].from = Dam /\ aResult.routes[i].to = Weena
       /\ aResult.routes[i].count = 3
       /\ aResult.routes[j].from = Weena /\ aResult.routes[j].to = Dam
       /\ aResult.routes[j].count = 2

\* A filtered journey with both names that starts or ends at the stop.
Touches(trip, stop) ==
  /\ trip.transactie = Reis
  /\ trip.from # << >>
  /\ trip.to # << >>
  /\ trip.from = stop \/ trip.to = stop

\* C10: for a stop X without an entry in the coordinate map, no route
\* aggregate has X as origin or destination, and X is in the missing set
\* whenever a filtered journey with both names touches X.
C10_MissingCoordinateExcludesRoute ==
  aDone =>
    \A X \in (AppStops \cup { << >> }) \ DOMAIN aCoords :
      /\ \A i \in 1..Len(aResult.routes) :
           aResult.routes[i].from # X /\ aResult.routes[i].to # X
      /\ (\E i \in 1..Len(aTrips) : Touches(aTrips[i], X))
           => Contains(aResult.missing, X)

C10_Witness ==
  /\ aDone
  /\ Zuid \notin DOMAIN aCoords
  /\ Dam \in DOMAIN aCoords
  /\ \E i \in 1..Len(aTrips) : Touches(aTrips[i], Zuid) /\ aTrips[i].from = Dam
  /\ Contains(aResult.missing, Zuid)
  /\ ~Contains(aResult.missing, Dam)
  /\ Len(aResult.routes) > 0

\* A journey with both names.
JourneyWithNames(trip) ==
  /\ trip.transactie = Reis
  /\ trip.from # << >>
  /\ trip.to # << >>

\* Check-ins and check-outs at the stop over the eligible trips.
StopCount(name) ==
  Cardinality({ i \in 1..Len(aTrips) : Eligible(aTrips[i]) /\ aTrips[i].from = name })
    + Cardinality({ i \in 1..Len(aTrips) : Eligible(aTrips[i]) /\ aTrips[i].to = name })

\* C11: the product aggregate counts every filtered trip of the category,
\* whatever its transaction type; a trip that is no journey or lacks its
\* origin or destination is in no route count, no stop count and adds
\* nothing to the missing set.
C11_ProductsCountAllJourneysCountRest ==
  aDone =>
    /\ { aResult.products[i].name : i \in 1..Len(aResult.products) }
         = { aTrips[i].product : i \in 1..Len(aTrips) }
    /\ \A i, j \in 1..Len(aResult.products) :
         aResult.products[i].name = aResult.products[j].name => i = j
    /\ \A i \in 1..Len(aResult.products) :
         aResult.products[i].count
           = Cardinality({ k \in 1..Len(aTrips) :
                             aTrips[k].product = aResult.products[i].name })
    /\ \A i \in 1..Len(aResult.routes) :
         aResult.routes[i].count
           = Cardinality({ k \in 1..Len(aTrips) :
                             /\ JourneyWithNames(aTrips[k])
                             /\ aTrips[k].from = aResult.routes[i].from
                             /\ aTrips[k].to = aResult.routes[i].to })
    /\ \A i \in 1..Len(aResult.stops) :
         aResult.stops[i].count
           <= Cardinality({ k \in 1..Len(aTrips) :
                              /\ JourneyWithNames(aTrips[k])
                              /\ aTrips[k].from = aResult.stops[i].name })
              + Cardinality({ k \in 1..Len(aTrips) :
                                /\ JourneyWithNames(aTrips[k])
                                /\ aTrips[k].to = aResult.stops[i].name })
    /\ Range(aResult.missing)
         = { n \in AppStops \ DOMAIN aCoords :
               \E i \in 1..Len(aTrips) : Touches(aTrips[i], n) }

C11_Witness ==
  /\ aDone
  /\ aCoords = << >>
  /\ \E i \in 1..Len(aTrips) : aTrips[i].transactie # Reis /\ aTrips[i].from = Dam
  /\ \E i \in 1..Len(aTrips) : aTrips[i].from = << >>
  /\ \E i \in 1..Len(aTrips) : aTrips[i].to = << >>
  /\ \A i \in 1..Len(aTrips) : ~JourneyWithNames(aTrips[i])
  /\ Len(aTrips) = 4
  /\ aResult.missing = << >>
  /\ aResult.routes = << >>
  /\ aResult.stops = << >>
  /\ \E i \in 1..Len(aResult.products) : aResult.products[i].count = 3

RECURSIVE SumCounts(_)
SumCounts(seq) ==
  IF seq = << >> THEN 0 ELSE seq[1].count + SumCounts(Tail(seq))

\* C14: a journey with an endpoint without coordinate adds to the stop
\* aggregate of neither endpoint: a stop's count is taken over the trips
\* that count for a route, every stop aggregate has a coordinate, and the
\* stop counts sum to twice the route counts.
C14_StopsCountedWithRoutes ==
  aDone =>
    /\ \A i \in 1..Len(aResult.stops) :
         /\ aResult.stops[i].name \in DOMAIN aCoords
         /\ aResult.stops[i].coord = aCoords[aResult.stops[i].name]
         /\ aResult.stops[i].count = StopCount(aResult.stops[i].name)
    /\ \A n \in AppStops :
         StopCount(n) > 0 => \E i \in 1..Len(aResult.stops) : aResult.stops[i].name = n
    /\ SumCounts(aResult.stops) = 2 * SumCounts(aResult.routes)

C14_Witness ==
  /\ aDone
  /\ Dam \in DOMAIN aCoords
  /\ Weena \in DOMAIN aCoords
  /\ Zuid \notin DOMAIN aCoords
  /\ \E i \in 1..Len(aTrips) : JourneyWithNames(aTrips[i]) /\ aTrips[i].to = Zuid
  /\ \E i \in 1..Len(aTrips) : Eligible(aTrips[i])
  /\ \E i \in 1..Len(aResult.stops) :
       aResult.stops[i].name = Dam /\ aResult.stops[i].count = 1
  /\ SumCounts(aResult.routes) = 1

(***************************************************************************)
(* Properties of the session.                                              *)
(***************************************************************************)
\* C12: whenever the accepted-product set is empty, the filtered trip list
\* and the route, stop and product aggregates and the missing-coordinate
\* set are all empty; and once the defaults were initialised, an empty
\* accepted-product set stays empty until the user selects a product: the
\* default set is not applied again.
C12_EmptySelectionShowsNothing ==
  /\ [](selectedProducts = {} =>
          /\ appFilteredTrips = << >>
          /\ appAnalytics.routes = << >>
          /\ appAnalytics.stops = << >>
          /\ appAnalytics.products = << >>
          /\ appAnalytics.missing = << >>)
  /\ [][(productsInitialized /\ selectedProducts = {} /\ selectedProducts' # {})
          => lastAct' = "toggleProduct"]_vars

\* The user has deselected every product of a dataset whose journeys, with
\* every product selected, pass the filter.
C12_Witness ==
  /\ productsInitialized
  /\ selectedProducts = {}
  /\ Cardinality(allProducts) = 2
  /\ lastAct = "toggleProduct"
  /\ ~EffectPending
  /\ filteredTrips(appTrips, [appFilterState EXCEPT !.selectedProducts = allProducts])
       # << >>

\* C13: if the load of trips.csv or of stopCoords.json fails, then once
\* loading is over the error is set, the rows and the coordinate map are
\* both still empty, and the error message is rendered instead of the map.
C13_FailedLoadAppliesNothing ==
  (~loading /\ loadFailure # {}) =>
    /\ error # NoError
    /\ appRows = << >>
    /\ appCoords = << >>
    /\ view = "error"

\* The journeys among the loaded trips with a parseable date.
Journeys ==
  LET IsJourney(trip) == trip.transactie = Reis
  IN  SelectSeq(appTrips, IsJourney)

\* The defaults of the filter are in place and the user has changed nothing.
DefaultsInPlace ==
  /\ view = "map"
  /\ productsInitialized
  /\ dateStart # NoDate
  /\ dateEnd # NoDate
  /\ ~EffectPending
  /\ ~touched

\* C15: once the data is loaded and the defaults of the filter are in
\* place, and before the user changes a filter, the filtered trip list is
\* exactly the loaded trips with a parseable date whose transaction type is
\* "Reis", whatever their product.
C15_DefaultsExcludeNoJourney ==
  DefaultsInPlace => appFilteredTrips = Journeys

\* The journeys that have a product.
JourneysWithProduct ==
  LET HasProduct(trip) == trip.product # ""
  IN  SelectSeq(Journeys, HasProduct)

\* C15, amended: once the data is loaded and the defaults of the filter are
\* in place, and before the user changes a filter, the filtered trip list is
\* exactly the loaded trips with a parseable date whose transaction type is
\* "Reis" and whose product is not empty.
C15_DefaultsExcludeNoJourneyWithProduct ==
  DefaultsInPlace => appFilteredTrips = JourneysWithProduct

\* The defaults are in place for a dataset that holds a journey without a
\* product, a journey with one, and a transaction that is not a journey.
C15_Witness ==
  /\ DefaultsInPlace
  /\ JourneysWithProduct # << >>
  /\ JourneysWithProduct # Journeys
  /\ Journeys # appTrips
  /\ appFilteredTrips = JourneysWithProduct

=============================================================================
